---- MODULE Spec2Model ----
(***************************************************************************)
(* The gibbering-mouther voice effect engine (src/app.js, the continuous   *)
(* variant with a stop button, and the first program of                    *)
(* src/unnamed/part_000, the timed variant with a completion timer).       *)
(*                                                                         *)
(* Units.  Times are integer milliseconds.  The float configuration fields *)
(* (pitch, gain, reverb mix, loop probability) are held in tenths, the     *)
(* step of their sliders (toFixed(1)); a Math.random() draw u is held in   *)
(* tenths too (0 <= u < 10), so a sampled pitch or gain is in hundredths.  *)
(***************************************************************************)
EXTENDS Integers, Sequences, FiniteSets, Bags, TLC

\* ------------------------------------------------------------------ bounds
MaxVoices == 2      \* largest VOICE_COUNT slider position modelled
MaxPlays == 2       \* play() and download invocations per behaviour
MaxTimedPlays == 1  \* play() invocations per behaviour of the timed variant
MaxInputs == 1      \* slider events and re-recordings per behaviour
MaxCaptures == 3    \* startRecording() calls per behaviour
MaxLate == 1        \* milliseconds the audio clock runs past a due timer task

\* --------------------------------------------------------- value domains
\* Math.random() in tenths: 0 <= u < 1.
Draws == {0, 9}
VoiceCounts == 0..MaxVoices
PitchValues == {10, 15}
GainValues == {3, 10}
StaggerValues == {0, 800}
DurationSeconds == {1, 2}
MixValues == {0, 5, 10}
LoopValues == {0, 3, 10}
Variants == {"continuous", "timed"}
\* audioContext.sampleRate is the rate of the output device.
SampleRates == {8000, 22050, 44100, 48000, 96000}
\* The output device of the behaviours of Spec.
DeviceRate == 44100

VARIABLES
    variant,                \* which program of the repository runs
    CONFIG,                 \* the mutable global configuration
    recordedBuffer,         \* 0 = null, else the identity of the decoded recording
    recCount,               \* recordings decoded so far (identity source)
    sources,                \* every AudioBufferSourceNode created, by identity
    currentPlayingSources,  \* the active-voice list (identities)
    timers,                 \* pending setTimeout callbacks
    now,                    \* audioContext.currentTime / wall clock, ms
    playCount,              \* play() invocations that passed the buffer guard
    sessions,               \* history: what each play() invocation saw
    inputs,                 \* slider events and re-recordings so far
    offline,                \* the offline renders in flight (downloadEffect)
    renderCount,            \* downloadEffect invocations that passed the guard
    uncaught,               \* an exception escaped an event handler
    playVisible, playDisabled, stopVisible, downloadDisabled, status,
    sampleRate,             \* audioContext.sampleRate, frames per second
    connections,            \* the connect() calls made on the live context
    downloads,              \* files handed to the browser (a.click())
    \* the capture session (startRecording / stopRecording)
    mediaRecorder,          \* 0 = null, else the identity of a MediaRecorder
    audioChunks,            \* the global chunk array
    isRecording,
    calls,                  \* startRecording() calls made so far
    permissions,            \* getUserMedia() calls not yet settled
    recorders,              \* every MediaRecorder created, by identity
    blobs,                  \* history: the blob each onstop handed to decoding
    \* one bufferToWav call
    wavBuffer,              \* the AudioBuffer being encoded
    wavView,                \* the bytes of the ArrayBuffer behind the DataView
    wavOffset,              \* let offset
    wavIndex,               \* let i of the chunk loop
    wavPhase,               \* "idle", "running", "yielded" or "resolved"
    wavChunks,              \* history: the chunks run, each with the frames
                            \* and the byte range it wrote and whether the
                            \* encoder yielded after it
    \* the page
    audioContext,           \* 0 = null, else the identity of the AudioContext
    liveReverb,             \* the global reverbNode: 0 = null, else the node
    clickListener,          \* the once-only click listener of the document
                            \* is still registered
    ignored                 \* history: the last call that returned at its
                            \* buffer guard for want of a recording ("play"
                            \* or "download"); "none" once one is decoded

captureVars == <<mediaRecorder, audioChunks, isRecording, calls, permissions,
                 recorders, blobs>>

encoderVars == <<wavBuffer, wavView, wavOffset, wavIndex, wavPhase, wavChunks>>

engineVars == <<variant, CONFIG, recordedBuffer, recCount, sources,
                currentPlayingSources, timers, now, playCount, sessions, inputs,
                offline, renderCount, uncaught, playVisible, playDisabled,
                stopVisible, downloadDisabled, status, sampleRate, connections,
                downloads>>

\* Every engine variable but the status line.
engineQuiet == <<variant, CONFIG, recordedBuffer, recCount, sources,
                 currentPlayingSources, timers, now, playCount, sessions, inputs,
                 offline, renderCount, uncaught, playVisible, playDisabled,
                 stopVisible, downloadDisabled, sampleRate, connections,
                 downloads>>

pageVars == <<audioContext, liveReverb, clickListener, ignored>>

vars == <<engineVars, captureVars, encoderVars, pageVars>>

ui == <<playVisible, playDisabled, stopVisible, downloadDisabled, status>>

\* ----------------------------------------------------------- pure helpers
Range(s) == {s[i] : i \in 1..Len(s)}

SetMin(S) == CHOOSE x \in S : \A y \in S : x <= y

\* Array.prototype.indexOf: 0-based position of the first match, -1 if none.
indexOf(list, x) ==
    IF \E i \in 1..Len(list) : list[i] = x
    THEN SetMin({i \in 1..Len(list) : list[i] = x}) - 1
    ELSE -1

\* Array.prototype.splice(start, 1): a negative start counts from the end.
splice(list, start) ==
    LET n == Len(list)
        from == IF start < 0 THEN (IF n + start < 0 THEN 0 ELSE n + start)
                ELSE (IF start > n THEN n ELSE start)
    IN  [i \in 1..(IF from < n THEN n - 1 ELSE n) |->
            IF i <= from THEN list[i] ELSE list[i + 1]]

\* PITCH_MIN + Math.random() * (PITCH_MAX - PITCH_MIN), in hundredths.
SamplePitchNoSpan(cfg, u) == cfg.PITCH_MIN * 10 + u * cfg.PITCH_MAX
SamplePitch(cfg, u) == cfg.PITCH_MIN * 10 + u * (cfg.PITCH_MAX - cfg.PITCH_MIN)

\* GAIN_MIN + Math.random() * (GAIN_MAX - GAIN_MIN), in hundredths.
SampleGainNoSpan(cfg, u) == cfg.GAIN_MIN * 10 + u * cfg.GAIN_MAX
SampleGain(cfg, u) == cfg.GAIN_MIN * 10 + u * (cfg.GAIN_MAX - cfg.GAIN_MIN)

\* Math.random() < LOOP_PROBABILITY
LoopDrawMutant(cfg, u) == u <= cfg.LOOP_PROBABILITY
LoopDraw(cfg, u) == u < cfg.LOOP_PROBABILITY

\* (Math.random() * STAGGER_MAX_MS) / 1000 * 1000 handed to setTimeout, which
\* converts its delay to an integer number of milliseconds by truncation.
LiveDelay(cfg, u) == (u * cfg.STAGGER_MAX_MS) \div 10

\* ------------------------------------------------------------ createVoice
\* The source node createVoice builds: buffer, playback rate, loop flag, gain,
\* start at currentTime and, unless continuous, stop at currentTime + duration.
\* uLoop is history: the Math.random() draw the loop decision was made from
\* (no draw is made in continuous mode).
createVoiceRecord(cfg, buf, t, session, continuous, stops, uPitch, uLoop, uGain) ==
    [session |-> session,
     buffer  |-> buf,
     rate    |-> SamplePitch(cfg, uPitch),
     loop    |-> IF continuous THEN TRUE ELSE LoopDraw(cfg, uLoop),
     uLoop   |-> IF continuous THEN 0 ELSE uLoop,
     gain    |-> SampleGain(cfg, uGain),
     outputs |-> {"dryGain", "wetGain"},
     start   |-> t,
     hasStop |-> stops,
     stop    |-> IF stops THEN t + cfg.EFFECT_DURATION_MS ELSE 0,
     state   |-> "playing"]

createVoiceAlwaysStops(cfg, buf, t, session, continuous, uPitch, uLoop, uGain) ==
    createVoiceRecord(cfg, buf, t, session, continuous, TRUE, uPitch, uLoop, uGain)

createVoice(cfg, buf, t, session, continuous, uPitch, uLoop, uGain) ==
    createVoiceRecord(cfg, buf, t, session, continuous, ~continuous,
                      uPitch, uLoop, uGain)

\* -------------------------------------------------------- stopAllSources
\* source.stop() on a playing source silences it; its ended event is queued.
StopSource(srcs, id) ==
    IF srcs[id].state = "playing"
    THEN [srcs EXCEPT ![id].state = "ended"]
    ELSE srcs

\* The sources whose stop() an engine may reject: those that already ended.
MayThrow(srcs, list) == {id \in Range(list) : srcs[id].state # "playing"}

\* forEach with the try/catch inside the callback: a throw skips one source.
RECURSIVE stopEach(_, _, _, _)
stopEach(srcs, list, i, throwers) ==
    IF i > Len(list) THEN srcs
    ELSE IF list[i] \in throwers
         THEN stopEach(srcs, list, i + 1, throwers)
         ELSE stopEach(StopSource(srcs, list[i]), list, i + 1, throwers)

\* forEach without a try/catch: the first throw ends the iteration.
RECURSIVE stopEachNoCatch(_, _, _, _)
stopEachNoCatch(srcs, list, i, throwers) ==
    IF i > Len(list) THEN [sources |-> srcs, threw |-> FALSE]
    ELSE IF list[i] \in throwers
         THEN [sources |-> srcs, threw |-> TRUE]
         ELSE stopEachNoCatch(StopSource(srcs, list[i]), list, i + 1, throwers)

stopAllSourcesNoCatch(srcs, list, throwers) ==
    LET r == stopEachNoCatch(srcs, list, 1, throwers)
    IN  [sources |-> r.sources,
         list    |-> IF r.threw THEN list ELSE <<>>,
         threw   |-> r.threw]

stopAllSourcesNoClear(srcs, list, throwers) ==
    [sources |-> stopEach(srcs, list, 1, throwers),
     list    |-> list,
     threw   |-> FALSE]

stopAllSources(srcs, list, throwers) ==
    [sources |-> stopEach(srcs, list, 1, throwers),
     list    |-> <<>>,
     threw   |-> FALSE]

\* ----------------------------------------------------------------- onended
\* A source whose ended event has been handled is referenced by nothing; what
\* is kept of it is its identity and the session that spawned it.
Collected(src) == [src EXCEPT !.state = "done", !.rate = 0, !.gain = 0,
                              !.start = 0, !.stop = 0, !.buffer = 0,
                              !.uLoop = 0]

onendedNoGuard(list, id) == splice(list, indexOf(list, id))

onended(list, id) ==
    LET index == indexOf(list, id)
    IN  IF index > -1 THEN splice(list, index) ELSE list

\* ------------------------------------------------------------ audio graph
Node(kind, of) == [kind |-> kind, of |-> of]

\* audioContext.destination
destination == Node("destination", 0)

\* The convolver initAudioContext creates, once, when the context is created.
reverbNode == Node("convolver", 0)

\* The nodes play() wires up: two gain nodes it creates (createGain) and the
\* global reverbNode.
EffectGraph(session) ==
    [drySum |-> Node("dryGain", session),
     wetSum |-> Node("wetGain", session),
     reverb |-> reverbNode]

\* dryGain.connect(destination); wetGain.connect(reverbNode);
\* reverbNode.connect(destination)
GraphConnections(g) ==
    {<<g.drySum, destination>>, <<g.wetSum, g.reverb>>, <<g.reverb, destination>>}

\* dryGain.gain.value = 1 - REVERB_WET_MIX; wetGain.gain.value =
\* REVERB_WET_MIX, in tenths.
DryLevelUnity(cfg) == 10
DryLevel(cfg) == 10 - cfg.REVERB_WET_MIX
WetLevel(cfg) == cfg.REVERB_WET_MIX

\* ---------------------------------------------- state outside this engine
\* No capture session has been started.
CaptureIdle ==
    /\ mediaRecorder = 0
    /\ audioChunks = <<>>
    /\ isRecording = FALSE
    /\ calls = 0
    /\ permissions = {}
    /\ recorders = <<>>
    /\ blobs = <<>>

\* The page has been loaded: no audio context yet, no click yet.
PageLoaded ==
    /\ audioContext = 0
    /\ liveReverb = 0
    /\ clickListener = TRUE
    /\ ignored = "none"

\* if (audioContext) return; audioContext = new AudioContext()
initAudioContextAlways(ctx) == ctx + 1
initAudioContext(ctx) == IF ctx # 0 THEN ctx ELSE ctx + 1

\* No bufferToWav call has been made.
EncoderIdle ==
    /\ wavBuffer = [length |-> 0, numberOfChannels |-> 1, sampleRate |-> 0,
                    data |-> <<0>>]
    /\ wavView = <<>>
    /\ wavOffset = 0
    /\ wavIndex = 0
    /\ wavPhase = "idle"
    /\ wavChunks = <<>>

\* ------------------------------------------------------------------- Init
\* The slider positions when the modelled behaviour begins: the shipped
\* STAGGER_MAX_MS, REVERB_WET_MIX and LOOP_PROBABILITY, the other sliders moved
\* (through their input listeners) to a small voice count, a one second effect
\* and pitch and gain ranges of a single value.
InitialConfig ==
    [VOICE_COUNT |-> MaxVoices, PITCH_MIN |-> 10, PITCH_MAX |-> 10,
     STAGGER_MAX_MS |-> 800, GAIN_MIN |-> 10, GAIN_MAX |-> 10,
     EFFECT_DURATION_MS |-> 1000, REVERB_WET_MIX |-> 5,
     LOOP_PROBABILITY |-> 3]

Init ==
    /\ variant \in Variants
    /\ CONFIG = InitialConfig
    /\ recordedBuffer = 0
    /\ recCount = 0
    /\ sources = <<>>
    /\ currentPlayingSources = <<>>
    /\ timers = EmptyBag
    /\ now = 0
    /\ playCount = 0
    /\ sessions = <<>>
    /\ inputs = 0
    /\ offline = <<>>
    /\ renderCount = 0
    /\ uncaught = FALSE
    /\ playVisible = TRUE
    /\ playDisabled \in BOOLEAN
    /\ stopVisible = FALSE
    /\ downloadDisabled \in BOOLEAN
    /\ status = "Ready"
    /\ sampleRate = DeviceRate
    /\ connections = {}
    /\ downloads = 0
    /\ CaptureIdle
    /\ EncoderIdle
    /\ PageLoaded

\* ------------------------------------------------------- processRecording
ProcessRecordingClears(ok) ==
    /\ recCount = 0 \/ inputs < MaxInputs
    /\ recCount' = recCount + 1
    /\ inputs' = IF recCount = 0 THEN inputs ELSE inputs + 1
    /\ IF ok
       THEN /\ recordedBuffer' = recCount + 1
            /\ playDisabled' = FALSE
            /\ status' = "Recording complete! Ready to play gibbering effect"
            /\ ignored' = "none"
       ELSE /\ status' = "Error processing recording"
            /\ recordedBuffer' = 0
            /\ UNCHANGED <<playDisabled, ignored>>
    /\ UNCHANGED <<captureVars, encoderVars, audioContext, liveReverb,
                   clickListener, sampleRate, connections,
                   downloads,
                   variant, CONFIG, sources, currentPlayingSources, timers, now,
                   playCount, sessions, offline, renderCount, uncaught,
                   playVisible, stopVisible, downloadDisabled>>

\* The decode of a captured blob settles: recordedBuffer is replaced on
\* success and kept on failure.  audioContext.decodeAudioData on a null
\* audioContext throws, which the catch clause reports like a failed decode.
ProcessRecording(ok) ==
    /\ recCount = 0 \/ inputs < MaxInputs
    /\ recCount' = recCount + 1
    /\ inputs' = IF recCount = 0 THEN inputs ELSE inputs + 1
    /\ IF ok /\ audioContext # 0
       THEN /\ recordedBuffer' = recCount + 1
            /\ playDisabled' = FALSE
            /\ status' = "Recording complete! Ready to play gibbering effect"
            /\ ignored' = "none"
       ELSE /\ status' = "Error processing recording"
            /\ UNCHANGED <<recordedBuffer, playDisabled, ignored>>
    /\ UNCHANGED <<captureVars, encoderVars, audioContext, liveReverb,
                   clickListener, sampleRate, connections,
                   downloads,
                   variant, CONFIG, sources, currentPlayingSources, timers, now,
                   playCount, sessions, offline, renderCount, uncaught,
                   playVisible, stopVisible, downloadDisabled>>

\* ---------------------------------------------------- playGibberingEffect
SpawnTimer(cfg, session, t, u) ==
    [session |-> session, due |-> t + LiveDelay(cfg, u), kind |-> "spawn"]

\* for (i = 0; i < VOICE_COUNT; i++) setTimeout(..., delay): one timer per
\* iteration, added to the pending timers (a bag: equal closures are alike).
RECURSIVE SpawnTimersFrom(_, _, _, _, _)
SpawnTimersFrom(cfg, session, t, draw, i) ==
    IF i >= cfg.VOICE_COUNT THEN EmptyBag
    ELSE SetToBag({SpawnTimer(cfg, session, t, draw[i + 1])})
         (+) SpawnTimersFrom(cfg, session, t, draw, i + 1)

SpawnTimersFromOne(cfg, session, t, draw) ==
    SpawnTimersFrom(cfg, session, t, draw, 1)

SpawnTimers(cfg, session, t, draw) == SpawnTimersFrom(cfg, session, t, draw, 0)

CompletionTimer(cfg, session, t) ==
    [session |-> session, due |-> t + cfg.EFFECT_DURATION_MS,
     kind |-> "complete"]

\* if (!recordedBuffer) return;
NoBufferNever(buf) == FALSE
NoBuffer(buf) == buf = 0

\* A call that returned at its buffer guard.
Ignored(call) ==
    /\ ignored' = call
    /\ UNCHANGED <<engineVars, captureVars, encoderVars, audioContext,
                   liveReverb, clickListener>>

playGibberingEffect(throwers, draw) ==
    IF NoBuffer(recordedBuffer)
    THEN Ignored("play")
    ELSE LET r == stopAllSources(sources, currentPlayingSources, throwers)
             s == playCount + 1
         IN  /\ sources' = r.sources
             /\ currentPlayingSources' = r.list
             /\ IF r.threw
                THEN /\ uncaught' = TRUE
                     /\ UNCHANGED <<captureVars, encoderVars, pageVars, sampleRate,
                                    connections, downloads, variant, CONFIG,
                                    recordedBuffer, recCount, timers, now,
                                    playCount, sessions, inputs, offline,
                                    renderCount, ui>>
                ELSE /\ status' = "Playing gibbering effect..."
                     /\ playCount' = s
                     /\ sessions' = Append(sessions,
                            [config |-> CONFIG, buffer |-> recordedBuffer,
                             n |-> CONFIG.VOICE_COUNT, at |-> now,
                             dry |-> DryLevel(CONFIG),
                             wet |-> WetLevel(CONFIG),
                             graph |-> EffectGraph(s)])
                     /\ connections' =
                            connections \cup GraphConnections(EffectGraph(s))
                     /\ IF variant = "continuous"
                        THEN /\ playVisible' = FALSE
                             /\ stopVisible' = TRUE
                             /\ downloadDisabled' = FALSE
                             /\ timers' = timers (+) SpawnTimers(CONFIG, s, now, draw)
                             /\ UNCHANGED playDisabled
                        ELSE /\ playDisabled' = TRUE
                             /\ timers' = timers (+) SpawnTimers(CONFIG, s, now, draw)
                                            (+) SetToBag({CompletionTimer(CONFIG, s, now)})
                             /\ UNCHANGED <<playVisible, stopVisible, downloadDisabled>>
                     /\ UNCHANGED <<captureVars, encoderVars, pageVars, sampleRate,
                                    downloads, variant, CONFIG, recordedBuffer,
                                    recCount, now, inputs, offline,
                                    renderCount, uncaught>>

\* A person acts between timer expiries: a click or a slider event is taken
\* when no pending timer has expired (an expired timer's callback runs first).
UserCanAct == \A t \in BagToSet(timers) : t.due > now

PlayLimit == IF variant = "timed" THEN MaxTimedPlays ELSE MaxPlays

PlayClick ==
    /\ UserCanAct
    /\ playVisible /\ ~playDisabled
    /\ playCount < PlayLimit
    /\ playCount + renderCount < MaxPlays
    /\ \E throwers \in SUBSET MayThrow(sources, currentPlayingSources) :
       \E draw \in [1..CONFIG.VOICE_COUNT -> Draws] :
          playGibberingEffect(throwers, draw)

\* ------------------------------------------------------ stop click handler
StopClick ==
    /\ UserCanAct
    /\ variant = "continuous"
    /\ stopVisible
    /\ \E throwers \in SUBSET MayThrow(sources, currentPlayingSources) :
          LET r == stopAllSources(sources, currentPlayingSources, throwers)
          IN  /\ sources' = r.sources
              /\ currentPlayingSources' = r.list
               /\ IF r.threw
                 THEN /\ uncaught' = TRUE
                      /\ UNCHANGED ui
                 ELSE /\ stopVisible' = FALSE
                      /\ playVisible' = TRUE
                      /\ playDisabled' = FALSE
                      /\ downloadDisabled' = FALSE
                      /\ status' = "Playback stopped. Ready to play again!"
                      /\ UNCHANGED uncaught
    /\ UNCHANGED <<captureVars, encoderVars, pageVars, sampleRate, connections,
                   downloads,
                   variant, CONFIG, recordedBuffer, recCount, timers, now,
                   playCount, sessions, inputs, offline, renderCount>>

\* -------------------------------------------------------- timer callbacks
SpawnTimerFires ==
    \E t \in BagToSet(timers) : \E uPitch \in Draws, uLoop \in Draws, uGain \in Draws :
       /\ t.kind = "spawn"
       /\ t.due <= now
       /\ timers' = timers (-) SetToBag({t})
       /\ sources' = Append(sources,
             createVoice(CONFIG, recordedBuffer, now, t.session,
                         variant = "continuous", uPitch, uLoop, uGain))
       /\ currentPlayingSources' = Append(currentPlayingSources, Len(sources) + 1)
       /\ UNCHANGED <<captureVars, encoderVars, pageVars, sampleRate, connections,
                   downloads,
                   variant, CONFIG, recordedBuffer, recCount, now, playCount,
                      sessions, inputs, offline, renderCount, uncaught, ui>>

CompletionTimerFires ==
    \E t \in BagToSet(timers) :
       /\ t.kind = "complete"
       /\ t.due <= now
       /\ timers' = timers (-) SetToBag({t})
       /\ status' = "Effect complete. Ready to play again!"
       /\ playDisabled' = FALSE
       /\ downloadDisabled' = FALSE
       /\ UNCHANGED <<captureVars, encoderVars, pageVars, sampleRate, connections,
                   downloads,
                   variant, CONFIG, recordedBuffer, recCount, sources,
                      currentPlayingSources, now, playCount, sessions, inputs,
                      offline, renderCount, uncaught, playVisible, stopVisible>>

\* ----------------------------------------------------- the audio engine
Playing == {id \in 1..Len(sources) : sources[id].state = "playing"}

\* A source that does not loop reaches the end of its buffer.
NaturalEnd ==
    \E id \in Playing :
       /\ ~sources[id].loop
       /\ sources[id].start <= now
       /\ sources' = [sources EXCEPT ![id].state = "ended"]
       /\ UNCHANGED <<captureVars, encoderVars, pageVars, sampleRate, connections,
                   downloads,
                   variant, CONFIG, recordedBuffer, recCount,
                      currentPlayingSources, timers, now, playCount, sessions,
                      inputs, offline, renderCount, uncaught, ui>>

\* A source reaches the time given to source.stop(when).
ScheduledStop ==
    \E id \in Playing :
       /\ sources[id].hasStop
       /\ sources[id].stop <= now
       /\ sources' = [sources EXCEPT ![id].state = "ended"]
       /\ UNCHANGED <<captureVars, encoderVars, pageVars, sampleRate, connections,
                   downloads,
                   variant, CONFIG, recordedBuffer, recCount,
                      currentPlayingSources, timers, now, playCount, sessions,
                      inputs, offline, renderCount, uncaught, ui>>

\* The queued ended event of a source is dispatched to source.onended.
OnEnded ==
    \E id \in 1..Len(sources) :
       /\ sources[id].state = "ended"
       /\ sources' = [sources EXCEPT ![id] = Collected(sources[id])]
       /\ currentPlayingSources' = onended(currentPlayingSources, id)
       /\ UNCHANGED <<captureVars, encoderVars, pageVars, sampleRate, connections,
                   downloads,
                   variant, CONFIG, recordedBuffer, recCount, timers, now,
                      playCount, sessions, inputs, offline, renderCount,
                      uncaught, ui>>

\* Time passes up to the next timer or scheduled stop.
PendingTimes ==
    {t.due : t \in BagToSet(timers)} \cup
    {sources[id].stop : id \in {i \in Playing : sources[i].hasStop}}

Tick ==
    /\ PendingTimes # {}
    /\ \A e \in PendingTimes : e > now
    /\ now' = SetMin(PendingTimes)
    /\ UNCHANGED <<captureVars, encoderVars, pageVars, sampleRate, connections,
                   downloads,
                   variant, CONFIG, recordedBuffer, recCount, sources,
                   currentPlayingSources, timers, playCount, sessions, inputs,
                   offline, renderCount, uncaught, ui>>

\* --------------------------------------------------------- downloadEffect
\* The source node createOfflineVoice builds.  Offline times are seconds in
\* the code; they are held as tenths of a millisecond, which keeps the delay
\* (Math.random() * STAGGER_MAX_MS) / 1000 exact.
createOfflineVoiceStopsAtEnd(cfg, buf, draw) ==
    LET delay == draw.delay * cfg.STAGGER_MAX_MS
    IN  [buffer |-> buf,
         rate   |-> SamplePitch(cfg, draw.pitch),
         loop   |-> LoopDraw(cfg, draw.loop),
         uLoop  |-> draw.loop,
         gain   |-> SampleGain(cfg, draw.gain),
         outputs |-> {"dryGain", "wetGain"},
         start  |-> delay,
         stop   |-> cfg.EFFECT_DURATION_MS * 10]

createOfflineVoice(cfg, buf, draw) ==
    LET delay == draw.delay * cfg.STAGGER_MAX_MS
    IN  [buffer |-> buf,
         rate   |-> SamplePitch(cfg, draw.pitch),
         loop   |-> LoopDraw(cfg, draw.loop),
         uLoop  |-> draw.loop,
         gain   |-> SampleGain(cfg, draw.gain),
         outputs |-> {"dryGain", "wetGain"},
         start  |-> delay,
         stop   |-> delay + cfg.EFFECT_DURATION_MS * 10]

\* for (i = 0; i < VOICE_COUNT; i++) createOfflineVoice(...)
RECURSIVE OfflineVoices(_, _, _, _)
OfflineVoices(cfg, buf, draws, i) ==
    IF i >= cfg.VOICE_COUNT THEN <<>>
    ELSE <<createOfflineVoice(cfg, buf, draws[i + 1])>>
         \o OfflineVoices(cfg, buf, draws, i + 1)

OfflineDraws == [delay : Draws, pitch : Draws, loop : Draws, gain : Draws]

\* The length handed to new OfflineAudioContext(2, length, sampleRate):
\* (sampleRate * EFFECT_DURATION_MS) / 1000, converted to an unsigned long
\* (truncated) by the constructor.
OfflineLengthDefault(rate, cfg) == rate * 15
OfflineLength(rate, cfg) == (rate * cfg.EFFECT_DURATION_MS) \div 1000

\* downloadEffect up to its first await (offlineContext.startRendering()).
downloadEffect(draws) ==
    IF NoBuffer(recordedBuffer)
    THEN Ignored("download")
    ELSE /\ status' = "Rendering audio..."
         /\ downloadDisabled' = TRUE
         /\ renderCount' = renderCount + 1
         /\ offline' = Append(offline,
               [id       |-> renderCount + 1,
                phase    |-> "rendering",
                numberOfChannels |-> 2,
                length   |-> OfflineLength(sampleRate, CONFIG),
                sampleRate |-> sampleRate,
                n        |-> CONFIG.VOICE_COUNT,
                duration |-> CONFIG.EFFECT_DURATION_MS,
                dry      |-> DryLevel(CONFIG),
                wet      |-> WetLevel(CONFIG),
                voices   |-> OfflineVoices(CONFIG, recordedBuffer, draws, 0)])
         /\ UNCHANGED <<captureVars, encoderVars, pageVars, sampleRate, connections,
                   downloads,
                   variant, CONFIG, recordedBuffer, recCount, sources,
                        currentPlayingSources, timers, now, playCount, sessions,
                        inputs, uncaught, playVisible, playDisabled, stopVisible>>

DownloadClick ==
    /\ UserCanAct
    /\ ~downloadDisabled
    /\ playCount + renderCount < MaxPlays
    /\ \E draws \in [1..CONFIG.VOICE_COUNT -> OfflineDraws] : downloadEffect(draws)

RemoveAt(seq, k) ==
    [i \in 1..(Len(seq) - 1) |-> IF i < k THEN seq[i] ELSE seq[i + 1]]

RenderSettlesNoFinally(ok) ==
    \E k \in 1..Len(offline) :
       /\ offline[k].phase = "rendering"
       /\ IF ok /\ variant = "continuous"
          THEN /\ offline' = [offline EXCEPT ![k].phase = "encoding",
                                             ![k].voices = <<>>]
               /\ status' = "Encoding WAV file..."
               /\ UNCHANGED <<downloadDisabled, downloads>>
          ELSE /\ offline' = RemoveAt(offline, k)
               /\ status' = IF ok THEN "Effect downloaded successfully!"
                            ELSE "Error generating download"
               /\ downloads' = IF ok THEN downloads + 1 ELSE downloads
               /\ downloadDisabled' = (~ok /\ downloadDisabled)
       /\ UNCHANGED <<captureVars, encoderVars, pageVars, sampleRate, connections,
                   variant, CONFIG, recordedBuffer, recCount, sources,
                      currentPlayingSources, timers, now, playCount, sessions,
                      inputs, renderCount, uncaught, playVisible, playDisabled,
                      stopVisible>>

\* startRendering() settles.  On failure the catch clause reports it and the
\* finally clause re-enables the download button.  On success the timed
\* variant encodes synchronously and hands the file to the browser in the
\* same task; app.js reports "Encoding WAV file..." and awaits bufferToWav,
\* which yields between chunks (the offline graph is no longer referenced).
RenderSettles(ok) ==
    \E k \in 1..Len(offline) :
       /\ offline[k].phase = "rendering"
       /\ IF ok /\ variant = "continuous"
          THEN /\ offline' = [offline EXCEPT ![k].phase = "encoding",
                                             ![k].voices = <<>>]
               /\ status' = "Encoding WAV file..."
               /\ UNCHANGED <<downloadDisabled, downloads>>
          ELSE /\ offline' = RemoveAt(offline, k)
               /\ status' = IF ok THEN "Effect downloaded successfully!"
                            ELSE "Error generating download"
               /\ downloads' = IF ok THEN downloads + 1 ELSE downloads
               /\ downloadDisabled' = FALSE
       /\ UNCHANGED <<captureVars, encoderVars, pageVars, sampleRate, connections,
                   variant, CONFIG, recordedBuffer, recCount, sources,
                      currentPlayingSources, timers, now, playCount, sessions,
                      inputs, renderCount, uncaught, playVisible, playDisabled,
                      stopVisible>>

\* bufferToWav settles in app.js: the file is handed to the browser, or the
\* failure is reported; the finally clause re-enables the download button.
EncodeSettles(ok) ==
    \E k \in 1..Len(offline) :
       /\ offline[k].phase = "encoding"
       /\ offline' = RemoveAt(offline, k)
       /\ status' = IF ok THEN "Effect downloaded successfully!"
                    ELSE "Error generating download"
       /\ downloads' = IF ok THEN downloads + 1 ELSE downloads
       /\ downloadDisabled' = FALSE
       /\ UNCHANGED <<captureVars, encoderVars, pageVars, sampleRate, connections,
                   variant, CONFIG, recordedBuffer, recCount, sources,
                      currentPlayingSources, timers, now, playCount, sessions,
                      inputs, renderCount, uncaught, playVisible, playDisabled,
                      stopVisible>>

\* ----------------------------------------- configuration input listeners
SetConfig(field, value) ==
    /\ UserCanAct
    /\ inputs < MaxInputs
    /\ inputs' = inputs + 1
    /\ CONFIG' = [CONFIG EXCEPT ![field] = value]
    /\ UNCHANGED <<captureVars, encoderVars, pageVars, sampleRate, connections,
                   downloads,
                   variant, recordedBuffer, recCount, sources,
                   currentPlayingSources, timers, now, playCount, sessions,
                   offline, renderCount, uncaught, ui>>

VoiceCountInput == \E v \in VoiceCounts : SetConfig("VOICE_COUNT", v)
PitchMinInput == \E v \in PitchValues : SetConfig("PITCH_MIN", v)
PitchMaxInput == \E v \in PitchValues : SetConfig("PITCH_MAX", v)
StaggerMaxInput == \E v \in StaggerValues : SetConfig("STAGGER_MAX_MS", v)
GainMinInput == \E v \in GainValues : SetConfig("GAIN_MIN", v)
GainMaxInput == \E v \in GainValues : SetConfig("GAIN_MAX", v)
EffectDurationInput ==
    \E v \in DurationSeconds : SetConfig("EFFECT_DURATION_MS", v * 1000)
ReverbMixInput == \E v \in MixValues : SetConfig("REVERB_WET_MIX", v)
LoopProbabilityInput == \E v \in LoopValues : SetConfig("LOOP_PROBABILITY", v)

\* ------------------------------------------------- document click listener
\* document.addEventListener("click", ..., { once: true }): the first click
\* on the page initialises the audio system if nothing has yet.
DocumentClick ==
    /\ UserCanAct
    /\ clickListener
    /\ clickListener' = FALSE
    /\ audioContext' = initAudioContext(audioContext)
    /\ liveReverb' = IF audioContext = 0 THEN reverbNode ELSE liveReverb
    /\ status' = IF audioContext = 0 THEN "Audio system initialised" ELSE status
    /\ UNCHANGED <<engineQuiet, captureVars, encoderVars, ignored>>

\* ------------------------------------------------------------------- Next
Next ==
    \/ DocumentClick
    \/ \E ok \in BOOLEAN : ProcessRecording(ok)
    \/ PlayClick
    \/ StopClick
    \/ DownloadClick
    \/ \E ok \in BOOLEAN : RenderSettles(ok)
    \/ \E ok \in BOOLEAN : EncodeSettles(ok)
    \/ SpawnTimerFires
    \/ CompletionTimerFires
    \/ NaturalEnd
    \/ ScheduledStop
    \/ OnEnded
    \/ Tick
    \/ VoiceCountInput
    \/ PitchMinInput
    \/ PitchMaxInput
    \/ StaggerMaxInput
    \/ GainMinInput
    \/ GainMaxInput
    \/ EffectDurationInput
    \/ ReverbMixInput
    \/ LoopProbabilityInput

Spec == Init /\ [][Next]_vars

\* ------------------------------------------- the download path, any device
\* A recording has been decoded and the download button is enabled; the
\* context runs at any of the device rates.
EngineReadyWith(cfg) ==
    /\ variant \in Variants
    /\ CONFIG = cfg
    /\ recordedBuffer = 1
    /\ recCount = 1
    /\ sources = <<>>
    /\ currentPlayingSources = <<>>
    /\ timers = EmptyBag
    /\ now = 0
    /\ playCount = 0
    /\ sessions = <<>>
    /\ inputs = 0
    /\ offline = <<>>
    /\ renderCount = 0
    /\ uncaught = FALSE
    /\ playVisible = TRUE
    /\ playDisabled = FALSE
    /\ stopVisible = FALSE
    /\ downloadDisabled = FALSE
    /\ status = "Recording complete! Ready to play gibbering effect"
    /\ connections = {}
    /\ downloads = 0
    /\ audioContext = initAudioContext(0)
    /\ liveReverb = reverbNode
    /\ clickListener = FALSE
    /\ ignored = "none"

EngineReady == EngineReadyWith(InitialConfig)

RenderInit ==
    /\ EngineReady
    /\ sampleRate \in SampleRates
    /\ CaptureIdle
    /\ EncoderIdle

RenderNext ==
    \/ EffectDurationInput
    \/ DownloadClick
    \/ \E ok \in BOOLEAN : RenderSettles(ok)
    \/ \E ok \in BOOLEAN : EncodeSettles(ok)

RenderSpec == RenderInit /\ [][RenderNext]_vars

\* ------------------------------------- the voices, over the slider ranges
\* Slider positions <<PITCH_MIN, PITCH_MAX, GAIN_MIN, GAIN_MAX,
\* STAGGER_MAX_MS, LOOP_PROBABILITY, REVERB_WET_MIX, seconds>>: the shipped
\* ranges, single-valued ranges, wide ranges, and the ends of the stagger,
\* loop and mix sliders.
SliderPositions ==
    {<<2, 15, 3, 10, 800, 3, 5, 1>>,
     <<10, 10, 10, 10, 0, 0, 0, 1>>,
     <<5, 20, 0, 20, 800, 10, 10, 2>>,
     <<15, 15, 3, 3, 0, 3, 3, 2>>}

Configs ==
    {[VOICE_COUNT |-> MaxVoices, PITCH_MIN |-> p[1], PITCH_MAX |-> p[2],
      STAGGER_MAX_MS |-> p[5], GAIN_MIN |-> p[3], GAIN_MAX |-> p[4],
      EFFECT_DURATION_MS |-> p[8] * 1000, REVERB_WET_MIX |-> p[7],
      LOOP_PROBABILITY |-> p[6]] : p \in SliderPositions}

\* A recording has been decoded and the sliders are at any of the positions.
VoiceInit ==
    /\ \E cfg \in Configs : EngineReadyWith(cfg)
    /\ sampleRate = DeviceRate
    /\ CaptureIdle
    /\ EncoderIdle

\* audioContext.currentTime is advanced by the rendering thread, one render
\* quantum after another, whatever the event loop is doing: a timer task that
\* is due may find the clock up to MaxLate milliseconds past its due time.
ClockAdvances ==
    /\ \E t \in BagToSet(timers) : t.due <= now /\ now < t.due + MaxLate
    /\ now' = now + 1
    /\ UNCHANGED <<captureVars, encoderVars, pageVars, sampleRate, connections,
                   downloads,
                   variant, CONFIG, recordedBuffer, recCount, sources,
                   currentPlayingSources, timers, playCount, sessions, inputs,
                   offline, renderCount, uncaught, ui>>

VoiceNext ==
    \/ PlayClick
    \/ SpawnTimerFires
    \/ Tick
    \/ ClockAdvances
    \/ DownloadClick

VoiceSpec == VoiceInit /\ [][VoiceNext]_vars

\* ============================================================ bufferToWav
\* Samples are held in tenths (0.7 is 7); a DataView is the sequence of its
\* bytes, byte offset o at index o + 1.
chunkSize == 10000

Min(a, b) == IF a < b THEN a ELSE b
Max(a, b) == IF a > b THEN a ELSE b

\* buffer.getChannelData(channel)[j]: the buffer's data is a short signal
\* repeated over its length, the second channel four frames ahead.
Sample(buf, channel, j) == buf.data[((j + 4 * channel) % Len(buf.data)) + 1]

\* const length = buffer.length * numberOfChannels * 2
DataLengthMono(buf) == buf.length * 2
DataLength(buf) == buf.length * buf.numberOfChannels * 2

\* view.setUint8(offset, value)
setUint8(view, offset, value) ==
    [k \in 1..Len(view) |-> IF k = offset + 1 THEN value % 256 ELSE view[k]]

\* writeString: one setUint8 per character code.
RECURSIVE writeStringFrom(_, _, _, _)
writeStringFrom(view, offset, string, i) ==
    IF i >= Len(string) THEN view
    ELSE writeStringFrom(setUint8(view, offset + i, string[i + 1]),
                         offset, string, i + 1)

writeString(view, offset, string) == writeStringFrom(view, offset, string, 0)

\* view.setUint16(offset, value, true): value modulo 2^16, low byte first.
setUint16BigEndian(view, offset, value) ==
    [k \in 1..Len(view) |->
        IF k = offset + 1 THEN (value \div 256) % 256
        ELSE IF k = offset + 2 THEN value % 256
        ELSE view[k]]

setUint16(view, offset, value) ==
    [k \in 1..Len(view) |->
        IF k = offset + 1 THEN value % 256
        ELSE IF k = offset + 2 THEN (value \div 256) % 256
        ELSE view[k]]

\* view.setUint32(offset, value, true): value modulo 2^32, low byte first.
setUint32(view, offset, value) ==
    [k \in 1..Len(view) |->
        IF k = offset + 1 THEN value % 256
        ELSE IF k = offset + 2 THEN (value \div 256) % 256
        ELSE IF k = offset + 3 THEN (value \div 65536) % 256
        ELSE IF k = offset + 4 THEN (value \div 16777216) % 256
        ELSE view[k]]

\* Character codes of the four chunk tags.
RIFF == <<82, 73, 70, 70>>
WAVE == <<87, 65, 86, 69>>
fmt == <<102, 109, 116, 32>>
data == <<100, 97, 116, 97>>

\* The header writes of bufferToWav, in order, on the first 44 bytes.
WavHeader(buf) ==
    LET numberOfChannels == buf.numberOfChannels
        length == DataLength(buf)
        v0  == [k \in 1..44 |-> 0]
        v1  == writeString(v0, 0, RIFF)
        v2  == setUint32(v1, 4, 36 + length)
        v3  == writeString(v2, 8, WAVE)
        v4  == writeString(v3, 12, fmt)
        v5  == setUint32(v4, 16, 16)
        v6  == setUint16(v5, 20, 1)
        v7  == setUint16(v6, 22, numberOfChannels)
        v8  == setUint32(v7, 24, buf.sampleRate)
        v9  == setUint32(v8, 28, buf.sampleRate * numberOfChannels * 2)
        v10 == setUint16(v9, 32, numberOfChannels * 2)
        v11 == setUint16(v10, 34, 16)
        v12 == writeString(v11, 36, data)
    IN  setUint32(v12, 40, length)

\* new ArrayBuffer(44 + length) is zero-filled; the header writes touch its
\* first 44 bytes.
NewView(buf) == WavHeader(buf) \o [k \in 1..DataLength(buf) |-> 0]

\* Math.max(-1, Math.min(1, sample)), in tenths.
ClampNone(sample) == sample
Clamp(sample) == Max(-10, Min(10, sample))

\* The 16 bits setInt16 stores for the Number num / den: the Number is
\* truncated toward zero and taken modulo 2^16 (ToInt16).
Int16Bits(num, den) ==
    LET t == IF num >= 0 THEN num \div den ELSE -((-num) \div den)
    IN  t % 65536

\* const int16 = clamp(sample) * 0x7fff; the bits view.setInt16 stores.
EncodeSample(sample) == Int16Bits(Clamp(sample) * 32767, 10)

\* The frames i .. end - 1 written from byte offset `offset` on: for each
\* frame, for each channel, setInt16(offset, int16, true); offset += 2.
WriteChunkPlanar(view, buf, offset, i, end) ==
    LET C == buf.numberOfChannels
    IN  [k \in 1..Len(view) |->
            LET rel == (k - 1) - offset
            IN  IF rel >= 0 /\ rel < (end - i) * C * 2
                THEN LET bits == EncodeSample(
                                    Sample(buf, (rel \div 2) \div (end - i),
                                           i + ((rel \div 2) % (end - i))))
                     IN  IF rel % 2 = 0 THEN bits % 256 ELSE bits \div 256
                ELSE view[k]]

WriteChunk(view, buf, offset, i, end) ==
    LET C == buf.numberOfChannels
    IN  [k \in 1..Len(view) |->
            LET rel == (k - 1) - offset
            IN  IF rel >= 0 /\ rel < (end - i) * C * 2
                THEN LET bits == EncodeSample(
                                    Sample(buf, (rel \div 2) % C,
                                           i + (rel \div 2) \div C))
                     IN  IF rel % 2 = 0 THEN bits % 256 ELSE bits \div 256
                ELSE view[k]]

\* bufferToWav of src/unnamed/part_000: the header, then every frame in one
\* pass.
bufferToWavSync(buf) == WriteChunk(NewView(buf), buf, 44, 0, buf.length)

\* i += chunkSize
NextIndexSkips(i) == i + chunkSize + 1
NextIndex(i) == i + chunkSize

\* One iteration of the chunk loop of src/app.js from loop variable i: the
\* loop test, the chunk, and either the yield or the end of the loop.
\* if (i + chunkSize < length) await new Promise(r => setTimeout(r, 0))
YieldsAfterEvery(i, length) == i + chunkSize <= length
YieldsAfter(i, length) == i + chunkSize < length

\* What one pass over the frames i .. end - 1 leaves in the history.
Chunk(i, end, offset, channels, yielded) ==
    [i |-> i, end |-> end, from |-> offset,
     to |-> offset + (end - i) * channels * 2, yielded |-> yielded]

RunChunk(view, offset, i) ==
    IF i < wavBuffer.length
    THEN LET end == Min(i + chunkSize, wavBuffer.length)
         IN  /\ wavView' = WriteChunk(view, wavBuffer, offset, i, end)
             /\ wavOffset' = offset + (end - i) * wavBuffer.numberOfChannels * 2
             /\ wavChunks' = Append(wavChunks,
                    Chunk(i, end, offset, wavBuffer.numberOfChannels,
                          YieldsAfter(i, wavBuffer.length)))
             /\ IF YieldsAfter(i, wavBuffer.length)
                THEN /\ wavPhase' = "yielded"
                     /\ wavIndex' = i
                ELSE /\ wavPhase' = "resolved"
                     /\ wavIndex' = NextIndex(i)
    ELSE /\ wavView' = view
         /\ wavOffset' = offset
         /\ wavIndex' = i
         /\ wavPhase' = "resolved"
         /\ wavChunks' = wavChunks

\* bufferToWav is called: part_000 encodes in one pass; app.js writes the
\* header and runs the chunk loop up to its first yield.
BufferToWav ==
    /\ wavPhase = "idle"
    /\ IF variant = "timed"
       THEN /\ wavView' = bufferToWavSync(wavBuffer)
            /\ wavOffset' = 44 + DataLength(wavBuffer)
            /\ wavIndex' = wavBuffer.length
            /\ wavPhase' = "resolved"
            /\ wavChunks' = IF wavBuffer.length = 0 THEN <<>>
                            ELSE <<Chunk(0, wavBuffer.length, 44,
                                         wavBuffer.numberOfChannels, FALSE)>>
       ELSE RunChunk(NewView(wavBuffer), 44, 0)
    /\ UNCHANGED <<engineVars, captureVars, pageVars, wavBuffer>>

\* The setTimeout(resolve, 0) of a yield fires: the loop goes on.
EncoderResumes ==
    /\ wavPhase = "yielded"
    /\ RunChunk(wavView, wavOffset, NextIndex(wavIndex))
    /\ UNCHANGED <<engineVars, captureVars, pageVars, wavBuffer>>

\* The buffers handed to bufferToWav: short ones of either rate, silent or
\* not, and ones about as long as one chunk and as two.
ShortLengths == {0, 1, 2}
ChunkLengths == {chunkSize - 1, chunkSize, chunkSize + 1, 2 * chunkSize}
WavChannels == {1, 2}
Silence == <<0>>
Signal == <<15, 7, -5, 3, 10, -20, -10, 5, -7, 0, -15>>

WavBuffers ==
    [length : ShortLengths, numberOfChannels : WavChannels,
     sampleRate : {44100, 48000}, data : {Silence, Signal}]
    \cup
    [length : ChunkLengths, numberOfChannels : WavChannels,
     sampleRate : {48000}, data : {Signal}]

WavInit ==
    /\ EngineReady
    /\ CaptureIdle
    /\ wavBuffer \in WavBuffers
    /\ sampleRate = wavBuffer.sampleRate
    /\ wavView = <<>>
    /\ wavOffset = 0
    /\ wavIndex = 0
    /\ wavPhase = "idle"
    /\ wavChunks = <<>>

WavNext == BufferToWav \/ EncoderResumes

WavSpec == WavInit /\ [][WavNext]_vars

\* The timer of a yield (setTimeout(resolve, 0)) fires once the event loop
\* is free: a yielded encoder is resumed.
WavLiveSpec == WavInit /\ [][WavNext]_vars /\ WF_vars(EncoderResumes)

\* ====================================================== the capture session
\* startRecording up to its await: initAudioContext() (which reports on the
\* status line when it creates the context, on the first click), then
\* getUserMedia() is called and pending.  A call is named by its number.
startRecording ==
    /\ calls < MaxCaptures
    /\ permissions' = permissions \cup {calls + 1}
    /\ calls' = calls + 1
    /\ audioContext' = initAudioContext(audioContext)
    /\ liveReverb' = IF audioContext = 0 THEN reverbNode ELSE liveReverb
    /\ status' = IF audioContext = 0 THEN "Audio system initialised" ELSE status
    /\ UNCHANGED <<mediaRecorder, audioChunks, isRecording, recorders, blobs,
                   clickListener, ignored>>

\* stopRecording: mediaRecorder.stop() inactivates the recorder and queues
\* its dataavailable and stop events.
stopRecording ==
    IF mediaRecorder # 0 /\ isRecording
    THEN /\ recorders' = [recorders EXCEPT ![mediaRecorder].state = "stopping"]
         /\ isRecording' = FALSE
         /\ status' = "Processing recording..."
         /\ UNCHANGED <<mediaRecorder, audioChunks, calls, permissions, blobs,
                        pageVars>>
    ELSE UNCHANGED <<captureVars, status, pageVars>>

\* The record button's click listener.
RecordClick ==
    /\ IF isRecording THEN stopRecording ELSE startRecording
    /\ UNCHANGED <<engineQuiet, encoderVars>>

\* getUserMedia() resolves: startRecording goes on after its await.
PermissionGranted ==
    \E c \in permissions :
       /\ permissions' = permissions \ {c}
       /\ mediaRecorder' = Len(recorders) + 1
       /\ audioChunks' = <<>>
       /\ recorders' = Append(recorders, [call |-> c, state |-> "recording"])
       /\ isRecording' = TRUE
       /\ status' = "Recording... Speak now!"
       /\ UNCHANGED <<calls, blobs, engineQuiet, encoderVars, pageVars>>

\* getUserMedia() rejects: the catch clause of startRecording.
PermissionDenied ==
    \E c \in permissions :
       /\ permissions' = permissions \ {c}
       /\ status' = "Error: Microphone access denied"
       /\ UNCHANGED <<mediaRecorder, audioChunks, isRecording, calls,
                      recorders, blobs, engineQuiet, encoderVars, pageVars>>

\* mediaRecorder.ondataavailable: audioChunks.push(event.data).  A recorder
\* started without a timeslice delivers one chunk, named by its recorder.
ondataavailable(chunks, r) == Append(chunks, r)

\* mediaRecorder.onstop up to its await: new Blob(audioChunks).
onstop(chunks, r) == [recorder |-> r, chunks |-> chunks]

\* The task mediaRecorder.stop() queued runs: the recorder fires
\* dataavailable and then stop; the blob goes to processRecording.
RecorderStopped ==
    \E r \in 1..Len(recorders) :
       /\ recorders[r].state = "stopping"
       /\ recorders' = [recorders EXCEPT ![r].state = "inactive"]
       /\ audioChunks' = ondataavailable(audioChunks, r)
       /\ blobs' = Append(blobs, onstop(ondataavailable(audioChunks, r), r))
       /\ UNCHANGED <<mediaRecorder, isRecording, calls, permissions, status,
                      engineQuiet, encoderVars, pageVars>>

\* processRecording settles for a blob handed to it.
DecodeSettles ==
    /\ recCount < Len(blobs)
    /\ \E ok \in BOOLEAN : ProcessRecording(ok)

RecNext ==
    \/ DocumentClick
    \/ RecordClick
    \/ PermissionGranted
    \/ PermissionDenied
    \/ RecorderStopped
    \/ DecodeSettles

RecSpec == Init /\ [][RecNext]_vars

\* ============================================================ the session
\* Capture together with the play and download buttons, which may be
\* clicked before, while and after a recording is made.
SessionNext ==
    \/ RecNext
    \/ PlayClick

SessionSpec == Init /\ [][SessionNext]_vars

\* ================================================================ claims
Live == {id \in 1..Len(sources) : sources[id].state # "done"}
InList == Range(currentPlayingSources)
SpawnTimersOf(s) ==
    {t \in BagToSet(timers) : t.kind = "spawn" /\ t.session = s}
RECURSIVE SumCopies(_)
SumCopies(S) ==
    IF S = {} THEN 0
    ELSE LET t == CHOOSE x \in S : TRUE
         IN  CopiesIn(t, timers) + SumCopies(S \ {t})

\* C1: at most one live voice set is active: every source that is playing or
\* held in currentPlayingSources was spawned by the most recent play().
C1_OneLiveVoiceSet ==
    \A id \in 1..Len(sources) :
       (sources[id].state = "playing" \/ id \in InList)
          => sources[id].session = playCount

\* C2: in the continuous variant, once stop() has been called and until the
\* next play() (the stop button is hidden), no source is playing and the
\* active-voice list is empty.
C2_StoppedStaysSilent ==
    (variant = "continuous" /\ ~stopVisible)
       => (currentPlayingSources = <<>> /\ Playing = {})

\* C3: stopAllSources never lets an exception escape, whichever already-ended
\* sources reject their stop(): in every reachable state no handler has
\* failed, and a call of stopAllSources there returns normally, leaves no
\* listed source playing and empties the list.
C3_StopNeverRaises ==
    /\ ~uncaught
    /\ \A throwers \in SUBSET MayThrow(sources, currentPlayingSources) :
          LET r == stopAllSources(sources, currentPlayingSources, throwers)
          IN  /\ ~r.threw
              /\ r.list = <<>>
              /\ \A id \in InList : r.sources[id].state # "playing"

\* C3 witness: a state in which the call meets the mixed case: the list holds
\* an already-ended source, whose stop() may throw, ahead of a source that is
\* still playing and has to be stopped after the throw was caught.
C3_Witness ==
    /\ ~uncaught
    /\ \E i, j \in 1..Len(currentPlayingSources) :
          /\ i < j
          /\ sources[currentPlayingSources[i]].state = "ended"
          /\ sources[currentPlayingSources[j]].state = "playing"
          /\ stopAllSources(sources, currentPlayingSources,
                            {currentPlayingSources[i]})
                .sources[currentPlayingSources[j]].state = "ended"

\* C4: stop() is idempotent: in every reachable state a call of stopAllSources
\* leaves the list empty, and a second call right after it changes nothing.
C4_StopIdempotent ==
    \A t1 \in SUBSET MayThrow(sources, currentPlayingSources) :
       LET a == stopAllSources(sources, currentPlayingSources, t1)
       IN  /\ a.list = <<>>
           /\ \A t2 \in SUBSET MayThrow(a.sources, a.list) :
                 stopAllSources(a.sources, a.list, t2) = a

\* C4 witness: stop has been clicked while sources were listed; the list is
\* empty, which is the state a second stop() is called in.
C4_Witness ==
    /\ status = "Playback stopped. Ready to play again!"
    /\ currentPlayingSources = <<>>
    /\ \E id \in 1..Len(sources) : sources[id].state = "ended"

\* C5: every voice's parameters come from the configuration as it was when
\* its play() was invoked.
C5_ConfigSnapshot ==
    \A id \in Live :
       LET v == sources[id]
           cfg == sessions[v.session].config
       IN  /\ \E u \in Draws : v.rate = SamplePitch(cfg, u)
           /\ \E u \in Draws : v.gain = SampleGain(cfg, u)
           /\ v.hasStop => v.stop = v.start + cfg.EFFECT_DURATION_MS
           /\ variant = "timed" => v.loop = LoopDraw(cfg, v.uLoop)

\* C6: every voice of a play() invocation plays the buffer that was recorded
\* when that play() was invoked.
C6_BufferSnapshot ==
    \A id \in Live : sources[id].buffer = sessions[sources[id].session].buffer

\* C7: a play() with VOICE_COUNT = N schedules exactly N spawns, each firing at
\* most once (pending spawn timers plus spawned sources of the session are N
\* at all times), and a render creates exactly N offline voices.
C7_ExactlyNSpawns ==
    /\ \A s \in 1..playCount :
          SumCopies(SpawnTimersOf(s))
            + Cardinality({id \in 1..Len(sources) : sources[id].session = s})
          = sessions[s].n
    /\ \A k \in 1..Len(offline) :
          offline[k].phase = "rendering" => Len(offline[k].voices) = offline[k].n

\* C7 witness: both timers of a two-voice play() have fired while a two-voice
\* render is in flight.
C7_Witness ==
    /\ \E s \in 1..playCount :
          /\ sessions[s].n = 2
          /\ SpawnTimersOf(s) = {}
          /\ Cardinality({id \in 1..Len(sources) : sources[id].session = s}) = 2
    /\ \E k \in 1..Len(offline) : Len(offline[k].voices) = 2

\* C8: a voice created in continuous mode has no scheduled stop; a voice
\* created in timed mode (live or offline) is created with a stop scheduled
\* at its own start plus EFFECT_DURATION_MS, and the schedule is never
\* changed afterwards.
C8_StopSchedule ==
    [][ /\ Len(sources') > Len(sources) =>
            LET v == sources'[Len(sources')]
            IN  /\ v.start = now
                /\ IF variant = "continuous"
                   THEN ~v.hasStop
                   ELSE v.hasStop /\ v.stop = v.start + CONFIG.EFFECT_DURATION_MS
        /\ renderCount' > renderCount =>
            \A v \in Range(offline'[Len(offline')].voices) :
               v.stop = v.start + 10 * CONFIG.EFFECT_DURATION_MS
        /\ \A id \in 1..Len(sources) :
              sources'[id].state # "done" =>
                 /\ sources'[id].hasStop = sources[id].hasStop
                 /\ sources'[id].stop = sources[id].stop
                 /\ sources'[id].start = sources[id].start
      ]_vars

\* C8 witness: the timed variant with a playing voice spawned after a stagger
\* delay and stopping one effect duration later, and an offline voice.
C8_Witness ==
    /\ variant = "timed"
    /\ \E id \in Playing :
          /\ sources[id].start > 0
          /\ sources[id].hasStop
          /\ sources[id].stop = sources[id].start + CONFIG.EFFECT_DURATION_MS
    /\ \E k \in 1..Len(offline) : \E v \in Range(offline[k].voices) : v.start > 0

\* C9: a continuous voice is created looping; a timed voice (live or offline)
\* is created looping exactly when its draw is below LOOP_PROBABILITY, so none
\* loops at probability 0 and all loop at probability 1.
C9_LoopDecision ==
    [][ /\ Len(sources') > Len(sources) =>
            LET v == sources'[Len(sources')]
            IN  IF variant = "continuous"
                THEN v.loop
                ELSE /\ v.loop = (v.uLoop < CONFIG.LOOP_PROBABILITY)
                     /\ CONFIG.LOOP_PROBABILITY = 0 => ~v.loop
                     /\ CONFIG.LOOP_PROBABILITY = 10 => v.loop
        /\ renderCount' > renderCount =>
            \A v \in Range(offline'[Len(offline')].voices) :
               /\ v.loop = (v.uLoop < CONFIG.LOOP_PROBABILITY)
               /\ CONFIG.LOOP_PROBABILITY = 0 => ~v.loop
               /\ CONFIG.LOOP_PROBABILITY = 10 => v.loop
        /\ \A id \in 1..Len(sources) : sources'[id].loop = sources[id].loop
      ]_vars

\* C9 witness: a timed playing voice that does not loop although its draw was
\* made with a nonzero probability, beside an offline voice that loops.
C9_Witness ==
    /\ variant = "timed"
    /\ CONFIG.LOOP_PROBABILITY = 3
    /\ \E id \in Playing : ~sources[id].loop /\ sources[id].uLoop = 9
    /\ \E k \in 1..Len(offline) : \E v \in Range(offline[k].voices) : v.loop

\* C10: handling a source's ended event removes that source and nothing else
\* from currentPlayingSources (nothing at all when stop() had already cleared
\* it); the list never holds a source whose ended event has been handled, nor
\* the same source twice.
C10_EndedDeregisters ==
    [][ /\ \A i, j \in 1..Len(currentPlayingSources') :
              currentPlayingSources'[i] = currentPlayingSources'[j] => i = j
        /\ \A id \in 1..Len(sources') :
              sources'[id].state = "done" => id \notin Range(currentPlayingSources')
        /\ \A id \in 1..Len(sources) :
              (sources[id].state = "ended" /\ sources'[id].state = "done") =>
                 currentPlayingSources' =
                    SelectSeq(currentPlayingSources, LAMBDA x : x # id)
      ]_vars

\* C10 witness: the ended event of a source that an earlier stop() had cleared
\* has been handled while a source of the next session is listed and playing.
C10_Witness ==
    \E old \in 1..Len(sources) : \E new \in Playing :
       /\ sources[old].state = "done"
       /\ sources[old].session < sources[new].session
       /\ new \in InList

GraphNodes(g) == {g.drySum, g.wetSum, g.reverb}

\* C11: each play() builds a fresh effect graph and discards the previous
\* one: no node of an earlier invocation's graph (its dry sum, wet sum or
\* reverb) is a node of the newest graph or still connected to the destination.
C11_FreshGraph ==
    \A s \in 1..playCount :
       s < playCount =>
          /\ GraphNodes(sessions[s].graph)
                \cap GraphNodes(sessions[playCount].graph) = {}
          /\ \A n \in GraphNodes(sessions[s].graph) :
                <<n, destination>> \notin connections

\* C17: a render drives an offline context of 2 channels, at the live
\* context's sample rate, of exactly sampleRate * EFFECT_DURATION_MS / 1000
\* frames, whatever effect duration is configured when download is invoked.
C17_RenderLength ==
    [][ renderCount' > renderCount =>
           LET o == offline'[Len(offline')]
           IN  /\ o.numberOfChannels = 2
               /\ o.sampleRate = sampleRate
               /\ o.length * 1000 = sampleRate * CONFIG.EFFECT_DURATION_MS
               /\ o.duration = CONFIG.EFFECT_DURATION_MS
      ]_vars

\* C17 witness: a render started after the duration slider was moved to two
\* seconds is in flight with two seconds' worth of frames.
C17_Witness ==
    \E k \in 1..Len(offline) :
       /\ offline[k].phase = "rendering"
       /\ offline[k].duration = 2000
       /\ offline[k].length = 2 * sampleRate
       /\ sampleRate = 22050

\* C18: when a render or the encoding after it fails, no file is handed to
\* the browser, the status reports the failure, the download button is enabled
\* again, and recordedBuffer and the active-voice list are as before.
C18_RenderFailure ==
    [][ (Len(offline') < Len(offline) /\ status' = "Error generating download")
           => /\ downloads' = downloads
              /\ ~downloadDisabled'
              /\ recordedBuffer' = recordedBuffer
              /\ currentPlayingSources' = currentPlayingSources
              /\ sources' = sources
      ]_vars

\* C18 witness: a render has failed while voices were playing; nothing was
\* downloaded and the button is enabled.
C18_Witness ==
    /\ status = "Error generating download"
    /\ renderCount = 1 /\ offline = <<>>
    /\ downloads = 0
    /\ ~downloadDisabled
    /\ recordedBuffer # 0
    /\ \E id \in InList : sources[id].state = "playing"

\* C19: when decoding a capture fails, recordedBuffer keeps its prior value
\* (unset or the previous recording), the play button is not enabled by the
\* failure, and the status reports the error.
C19_DecodeFailure ==
    [][ (recCount' > recCount /\ recordedBuffer' # recCount')
           => /\ recordedBuffer' = recordedBuffer
              /\ playDisabled' = playDisabled
              /\ status' = "Error processing recording"
      ]_vars

\* C19 witness: the second capture failed to decode and the first recording
\* is still the recorded buffer.
C19_Witness ==
    /\ status = "Error processing recording"
    /\ recCount = 2
    /\ recordedBuffer = 1

\* ------------------------------------------------- reading an encoded file
Uint16At(view, o) == view[o + 1] + 256 * view[o + 2]
Uint32At(view, o) ==
    view[o + 1] + 256 * view[o + 2] + 65536 * view[o + 3] + 16777216 * view[o + 4]
Int16At(view, o) ==
    IF Uint16At(view, o) >= 32768 THEN Uint16At(view, o) - 65536
    ELSE Uint16At(view, o)
TagAt(view, o) == <<view[o + 1], view[o + 2], view[o + 3], view[o + 4]>>
\* The frames and channels of the buffer being encoded, and where the file
\* holds the sample of frame j, channel c.
WavFrames == 0..(wavBuffer.length - 1)
WavChannelsOf == 0..(wavBuffer.numberOfChannels - 1)
SampleOffset(j, c) == 44 + 2 * (j * wavBuffer.numberOfChannels + c)
\* Math.round(num / den): the nearest integer, halves upward.
Round(num, den) ==
    LET n == 2 * num + den
        d == 2 * den
    IN  IF n >= 0 THEN n \div d ELSE -((-n + d - 1) \div d)

\* C12: the encoded stream of a buffer of L frames, C channels and rate R is
\* exactly 44 + L*C*2 bytes long and its header fields at offsets 22, 24 and
\* 40 decode back to C, R and (through the data size) L.
C12_WavSize ==
    wavPhase = "resolved" =>
       /\ Len(wavView) = 44 + wavBuffer.length * wavBuffer.numberOfChannels * 2
       /\ Uint16At(wavView, 22) = wavBuffer.numberOfChannels
       /\ Uint32At(wavView, 24) = wavBuffer.sampleRate
       /\ Uint32At(wavView, 40)
             = wavBuffer.length * wavBuffer.numberOfChannels * 2
       /\ Uint32At(wavView, 40) \div (2 * Uint16At(wavView, 22))
             = wavBuffer.length

\* C12 witness: a stereo buffer of 10001 frames has been encoded into
\* 40048 bytes.
C12_Witness ==
    /\ wavPhase = "resolved"
    /\ wavBuffer.length = 10001
    /\ wavBuffer.numberOfChannels = 2
    /\ Len(wavView) = 40048

\* C13: the 44-byte header is consistent: RIFF size 36 + data size, fmt size
\* 16, format tag 1, channel count, sample rate, byte rate = rate * channels
\* * 2, block align = channels * 2, 16 bits per sample, data size = frames *
\* channels * 2, every number little-endian.
C13_HeaderConsistent ==
    wavPhase # "idle" =>
       LET C == wavBuffer.numberOfChannels
           R == wavBuffer.sampleRate
           dataSize == wavBuffer.length * C * 2
       IN  /\ TagAt(wavView, 0) = <<82, 73, 70, 70>>
           /\ Uint32At(wavView, 4) = 36 + dataSize
           /\ TagAt(wavView, 8) = <<87, 65, 86, 69>>
           /\ TagAt(wavView, 12) = <<102, 109, 116, 32>>
           /\ Uint32At(wavView, 16) = 16
           /\ Uint16At(wavView, 20) = 1
           /\ Uint16At(wavView, 22) = C
           /\ Uint32At(wavView, 24) = R
           /\ Uint32At(wavView, 28) = R * C * 2
           /\ Uint16At(wavView, 32) = C * 2
           /\ Uint16At(wavView, 34) = 16
           /\ TagAt(wavView, 36) = <<100, 97, 116, 97>>
           /\ Uint32At(wavView, 40) = dataSize

\* C13 witness: the header of a stereo 48 kHz buffer of 20000 frames, byte
\* rate 192000 and RIFF size 80036, while the encoder is between two chunks.
C13_Witness ==
    /\ wavPhase = "yielded"
    /\ wavBuffer.length = 20000
    /\ Uint32At(wavView, 28) = 192000
    /\ Uint32At(wavView, 4) = 80036

\* C14: every encoded sample is round(clamp(sample, -1, 1) * 32767) as a
\* signed 16-bit integer.
C14_RoundedSamples ==
    wavPhase = "resolved" =>
       \A j \in WavFrames : \A c \in WavChannelsOf :
          Int16At(wavView, SampleOffset(j, c))
             = Round(Clamp(Sample(wavBuffer, c, j)) * 32767, 10)

\* C15: samples are clamped before encoding: every sample above 1 encodes as
\* 32767 (as 1.0 does), every sample below -1 as -32767 (as -1.0 does), and
\* no encoded value wraps around (its sign is never opposite to the sample's).
C15_Clamped ==
    wavPhase = "resolved" =>
       \A j \in WavFrames : \A c \in WavChannelsOf :
          LET sample == Sample(wavBuffer, c, j)
              int16 == Int16At(wavView, SampleOffset(j, c))
          IN  /\ sample >= 10 => int16 = 32767
              /\ sample <= -10 => int16 = -32767
              /\ sample >= 0 => int16 >= 0
              /\ sample <= 0 => int16 <= 0
              /\ int16 >= -32767 /\ int16 <= 32767

\* C15 witness: an encoded buffer in which a sample of 1.5 and a sample of
\* 1.0 are both stored as 32767 and a sample of -2.0 as -32767.
C15_Witness ==
    /\ wavPhase = "resolved"
    /\ wavBuffer.length = 2
    /\ wavBuffer.numberOfChannels = 2
    /\ Sample(wavBuffer, 0, 0) = 15
    /\ Int16At(wavView, SampleOffset(0, 0)) = 32767
    /\ Sample(wavBuffer, 1, 0) = 10
    /\ Int16At(wavView, SampleOffset(0, 1)) = 32767
    /\ Sample(wavBuffer, 1, 1) = -20
    /\ Int16At(wavView, SampleOffset(1, 1)) = -32767

\* C16: the chunked encoder of src/app.js resolves with byte for byte the
\* stream the single-pass encoder produces, for every buffer length (0, below,
\* at, one above and twice the chunk size).
C16_ChunkedEqualsSync ==
    (variant = "continuous" /\ wavPhase = "resolved")
       => wavView = bufferToWavSync(wavBuffer)

\* C16 witness: the chunked encoder has resolved after a yield, for a buffer
\* one frame longer than a chunk that is not silent.
C16_Witness ==
    /\ variant = "continuous"
    /\ wavPhase = "resolved"
    /\ wavBuffer.length = chunkSize + 1
    /\ wavIndex = 2 * chunkSize
    /\ wavOffset = Len(wavView)
    /\ Int16At(wavView, wavOffset - 2) # 0

\* C20: a recording is never merged with another: the blob handed to decoding
\* for a capture session holds exactly the chunk its own recorder delivered,
\* whatever the order of record clicks, permission grants and recorder events.
C20_BlobOwnChunks ==
    \A b \in 1..Len(blobs) : blobs[b].chunks = <<blobs[b].recorder>>

\* C21: in the live graph and in the offline graph the dry level is
\* 1 - REVERB_WET_MIX and the wet level is REVERB_WET_MIX, as configured when
\* the graph is built, so the two levels sum to 1, for every mix in [0, 1].
C21_DryWetLevels ==
    [][ /\ playCount' > playCount =>
            LET g == sessions'[playCount']
            IN  /\ g.wet = CONFIG.REVERB_WET_MIX
                /\ g.dry = 10 - CONFIG.REVERB_WET_MIX
                /\ g.dry + g.wet = 10
        /\ renderCount' > renderCount =>
            LET o == offline'[Len(offline')]
            IN  /\ o.wet = CONFIG.REVERB_WET_MIX
                /\ o.dry = 10 - CONFIG.REVERB_WET_MIX
                /\ o.dry + o.wet = 10
      ]_vars

\* C21 witness: with the mix slider at 1, a live graph and an offline graph
\* have been built with dry level 0 and wet level 1.
C21_Witness ==
    /\ CONFIG.REVERB_WET_MIX = 10
    /\ playCount > 0
    /\ sessions[playCount].dry = 0 /\ sessions[playCount].wet = 10
    /\ \E k \in 1..Len(offline) : offline[k].dry = 0 /\ offline[k].wet = 10

\* The voice a step created on the live context, if it created one, and the
\* voices of the render a step started.
NewOfflineVoices == Range(offline'[Len(offline')].voices)

\* C22: with PITCH_MIN <= PITCH_MAX the playback rate of every voice, live
\* or offline, is created within [PITCH_MIN, PITCH_MAX], and is exactly the
\* bound when the two are equal, whatever the draw.
C22_PitchInRange ==
    [][ CONFIG.PITCH_MIN <= CONFIG.PITCH_MAX =>
          /\ Len(sources') > Len(sources) =>
                LET v == sources'[Len(sources')]
                IN  /\ v.rate >= 10 * CONFIG.PITCH_MIN
                    /\ v.rate <= 10 * CONFIG.PITCH_MAX
                    /\ CONFIG.PITCH_MIN = CONFIG.PITCH_MAX
                          => v.rate = 10 * CONFIG.PITCH_MIN
          /\ renderCount' > renderCount =>
                \A v \in NewOfflineVoices :
                    /\ v.rate >= 10 * CONFIG.PITCH_MIN
                    /\ v.rate <= 10 * CONFIG.PITCH_MAX
                    /\ CONFIG.PITCH_MIN = CONFIG.PITCH_MAX
                          => v.rate = 10 * CONFIG.PITCH_MIN
      ]_vars

\* C22 witness: with the shipped pitch range 0.2 .. 1.5, a live voice drawn
\* high in the range (1.37) and an offline voice drawn at its lower end.
C22_Witness ==
    /\ CONFIG.PITCH_MIN = 2 /\ CONFIG.PITCH_MAX = 15
    /\ \E id \in Playing : sources[id].rate = 137
    /\ \E k \in 1..Len(offline) : \E v \in Range(offline[k].voices) : v.rate = 20

\* C23: with GAIN_MIN <= GAIN_MAX the gain of every voice, live or offline,
\* is created within [GAIN_MIN, GAIN_MAX], and is exactly the bound when the
\* two are equal, whatever the draw.
C23_GainInRange ==
    [][ CONFIG.GAIN_MIN <= CONFIG.GAIN_MAX =>
          /\ Len(sources') > Len(sources) =>
                LET v == sources'[Len(sources')]
                IN  /\ v.gain >= 10 * CONFIG.GAIN_MIN
                    /\ v.gain <= 10 * CONFIG.GAIN_MAX
                    /\ CONFIG.GAIN_MIN = CONFIG.GAIN_MAX
                          => v.gain = 10 * CONFIG.GAIN_MIN
          /\ renderCount' > renderCount =>
                \A v \in NewOfflineVoices :
                    /\ v.gain >= 10 * CONFIG.GAIN_MIN
                    /\ v.gain <= 10 * CONFIG.GAIN_MAX
                    /\ CONFIG.GAIN_MIN = CONFIG.GAIN_MAX
                          => v.gain = 10 * CONFIG.GAIN_MIN
      ]_vars

\* C23 witness: with both gain sliders at 0.3, a live voice and an offline
\* voice drawn with the largest draw have gain exactly 0.3.
C23_Witness ==
    /\ CONFIG.GAIN_MIN = 3 /\ CONFIG.GAIN_MAX = 3
    /\ \E id \in Playing : sources[id].gain = 30
    /\ \E k \in 1..Len(offline) : \E v \in Range(offline[k].voices) : v.gain = 30

\* C24: the delay of every voice is between 0 and STAGGER_MAX_MS; with
\* STAGGER_MAX_MS = 0 every delay is 0 and the voices of one invocation all
\* start at the same time, on the audio clock and in the offline render.
C24_StaggerDelay ==
    [][ /\ playCount' > playCount =>
              \A t \in BagToSet(timers') :
                  (t.kind = "spawn" /\ t.session = playCount') =>
                      /\ t.due >= now
                      /\ t.due <= now + CONFIG.STAGGER_MAX_MS
        /\ renderCount' > renderCount =>
              \A v \in NewOfflineVoices :
                  /\ v.start >= 0
                  /\ v.start <= 10 * CONFIG.STAGGER_MAX_MS
        /\ \A s \in 1..playCount' :
              sessions'[s].config.STAGGER_MAX_MS = 0 =>
                  \A a \in 1..Len(sources'), b \in 1..Len(sources') :
                      ( /\ sources'[a].session = s
                        /\ sources'[b].session = s
                        /\ sources'[a].state = "playing"
                        /\ sources'[b].state = "playing" )
                      => sources'[a].start = sources'[b].start
      ]_vars

\* The offline voice made from the same configuration and the same draws as
\* the live voice v agrees with v on playback rate, gain and fan-out, and,
\* where loopAndStop, on the loop flag and on a stop time one effect duration
\* after the start, whatever the stagger draw.
ParityWith(v, cfg, buf, uPitch, uLoop, uGain, loopAndStop) ==
    \A uDelay \in Draws :
        LET o == createOfflineVoice(cfg, buf,
                    [delay |-> uDelay, pitch |-> uPitch,
                     loop |-> uLoop, gain |-> uGain])
        IN  /\ o.rate = v.rate
            /\ o.gain = v.gain
            /\ o.outputs = v.outputs
            /\ o.buffer = v.buffer
            /\ loopAndStop =>
                  /\ o.loop = v.loop
                  /\ v.hasStop
                  /\ v.stop - v.start = cfg.EFFECT_DURATION_MS
                  /\ o.stop - o.start = 10 * (v.stop - v.start)

\* Every live voice a step creates has parity with its offline counterpart,
\* for every draw it can have been made from, in the variants of `modes`
\* also on loop flag and stop time; live and offline bus levels are equal.
ParityIn(modes) ==
    /\ Len(sources') > Len(sources) =>
          LET v == sources'[Len(sources')]
          IN  \A uPitch \in Draws, uLoop \in Draws, uGain \in Draws :
                  v = createVoice(CONFIG, recordedBuffer, now, v.session,
                                  variant = "continuous", uPitch, uLoop, uGain)
                  => ParityWith(v, CONFIG, recordedBuffer, uPitch, uLoop,
                                uGain, variant \in modes)
    /\ \A s \in 1..playCount' : \A k \in 1..Len(offline') :
          /\ sessions'[s].dry = offline'[k].dry
          /\ sessions'[s].wet = offline'[k].wet

\* C25 as stated: every live voice has the playback rate, loop flag, gain,
\* fan-out and stop time (start + EFFECT_DURATION_MS) of the offline voice made
\* from the same configuration and draws, and the bus levels are equal.
C25_ParityAllModes == [][ParityIn(Variants)]_vars

\* C25 amended: live and offline voices made from the same configuration and
\* draws have the same playback rate, gain, buffer and dry/wet fan-out, and the
\* bus levels are equal; the loop flag and the stop time (start +
\* EFFECT_DURATION_MS) are the same for timed live voices, while a continuous
\* live voice always loops and has no stop time.
C25_Parity ==
    [][ /\ ParityIn({"timed"})
        /\ (variant = "continuous" /\ Len(sources') > Len(sources)) =>
              /\ sources'[Len(sources')].loop
              /\ ~sources'[Len(sources')].hasStop
      ]_vars

\* C25 witness: a timed live voice and an offline voice of the same
\* configuration, both drawn at 1.37 rate, 0.93 gain and not looping, both
\* stopping one effect duration after their start, the live one started
\* 720 ms after play() and the offline one scheduled at offset 720 ms.
C25_Witness ==
    /\ variant = "timed"
    /\ CONFIG.STAGGER_MAX_MS = 800
    /\ \E id \in Playing : \E k \in 1..Len(offline) :
          \E o \in Range(offline[k].voices) :
             LET v == sources[id]
             IN  /\ v.rate = 137 /\ o.rate = 137
                 /\ v.gain = 93 /\ o.gain = 93
                 /\ ~v.loop /\ ~o.loop
                 /\ v.outputs = o.outputs
                 /\ v.start = sessions[v.session].at + 720
                 /\ o.start = 7200
                 /\ v.stop = v.start + 1000
                 /\ o.stop = o.start + 10000
                 /\ sessions[v.session].dry = offline[k].dry

\* C26: the samples are interleaved by frame and then by channel: the sample
\* of frame j, channel c lies little-endian at byte offset 44 + 2*(j*C + c);
\* the byte ranges written follow one another from 44 on without gap or
\* overlap, so that every data byte is written once; the write offset after
\* the last frame is 44 + L*C*2, the size of the buffer.
C26_Interleaved ==
    wavPhase = "resolved" =>
       LET C == wavBuffer.numberOfChannels
           L == wavBuffer.length
       IN  /\ \A j \in WavFrames : \A c \in WavChannelsOf :
                 LET bits == EncodeSample(Sample(wavBuffer, c, j))
                     at == 44 + 2 * (j * C + c)
                 IN  /\ wavView[at + 1] = bits % 256
                     /\ wavView[at + 2] = bits \div 256
           /\ \A n \in 1..Len(wavChunks) :
                 /\ wavChunks[n].from
                       = IF n = 1 THEN 44 ELSE wavChunks[n - 1].to
                 /\ wavChunks[n].i = IF n = 1 THEN 0 ELSE wavChunks[n - 1].end
                 /\ wavChunks[n].from = 44 + 2 * C * wavChunks[n].i
                 /\ wavChunks[n].to = 44 + 2 * C * wavChunks[n].end
           /\ L > 0 => wavChunks[Len(wavChunks)].end = L
           /\ L = 0 => wavChunks = <<>>
           /\ wavOffset = 44 + L * C * 2
           /\ wavOffset = Len(wavView)

\* C26 witness: a stereo buffer of two frames has been encoded: 15, 10, 7, -20
\* (tenths) lie at offsets 44, 46, 48 and 50 in frame-then-channel order, and
\* the write offset ended at 52.
C26_Witness ==
    /\ wavPhase = "resolved"
    /\ wavBuffer.length = 2 /\ wavBuffer.numberOfChannels = 2
    /\ Sample(wavBuffer, 1, 0) = 10 /\ Sample(wavBuffer, 0, 1) = 7
    /\ Int16At(wavView, 46) = 32767
    /\ Int16At(wavView, 48) = 22936
    /\ wavOffset = 52

\* ceil(length / chunkSize)
ChunksOf(length) == (length + chunkSize - 1) \div chunkSize

\* C27: bufferToWav of src/app.js terminates: once called it resolves; it
\* runs at most chunkSize frames between two yields, never yields after the
\* final chunk, and has yielded ceil(L / chunkSize) - 1 times when it
\* resolves for L > 0 and not at all for L = 0.
C27_Terminates ==
    /\ [](variant = "continuous" =>
            /\ \A n \in 1..Len(wavChunks) :
                  /\ wavChunks[n].end - wavChunks[n].i <= chunkSize
                  /\ wavChunks[n].yielded => wavChunks[n].end < wavBuffer.length
            /\ wavPhase = "resolved" =>
                  Cardinality({n \in 1..Len(wavChunks) : wavChunks[n].yielded})
                     = IF wavBuffer.length > 0
                       THEN ChunksOf(wavBuffer.length) - 1 ELSE 0)
    /\ (wavPhase # "idle") ~> (wavPhase = "resolved" /\ wavOffset = Len(wavView))

\* C27 witness: a buffer of two chunks has been encoded by src/app.js with
\* exactly one yield, after the first chunk.
C27_Witness ==
    /\ variant = "continuous"
    /\ wavPhase = "resolved"
    /\ wavBuffer.length = 2 * chunkSize
    /\ Len(wavChunks) = 2
    /\ wavChunks[1].yielded /\ ~wavChunks[2].yielded

\* C28: at most one downloadEffect is in progress, and the download control
\* is disabled for as long as one is, whatever play, stop and download clicks
\* come in between.
C28_OneDownload ==
    /\ Len(offline) <= 1
    /\ offline # <<>> => downloadDisabled

\* C29: at most one capture session is active: every MediaRecorder that was
\* started and has not been stopped is the one mediaRecorder refers to, with
\* isRecording true, so that the next record click stops it.
C29_OneCapture ==
    \A r \in 1..Len(recorders) :
        recorders[r].state = "recording" => (mediaRecorder = r /\ isRecording)

\* C30: in the timed variant, when the completion timer of a play() fires,
\* every voice of that play() has ended and the active-voice list is empty.
C30_CompleteMeansEnded ==
    [][ \A t \in BagToSet(timers) :
          ( /\ variant = "timed"
            /\ t.kind = "complete"
            /\ CopiesIn(t, timers') < CopiesIn(t, timers) )
          => /\ \A id \in 1..Len(sources) :
                   sources[id].session = t.session
                      => sources[id].state # "playing"
             /\ currentPlayingSources = <<>>
      ]_vars

\* C31: whenever recordedBuffer is set, audioContext and reverbNode are set;
\* once set, audioContext (and its reverb node) is never replaced or reset;
\* so a play() that passes its buffer guard finds the context and the node.
C31_ContextBeforeBuffer ==
    [][ /\ recordedBuffer' # 0 =>
              (audioContext' # 0 /\ liveReverb' = reverbNode)
        /\ audioContext # 0 =>
              (audioContext' = audioContext /\ liveReverb' = liveReverb)
        /\ playCount' > playCount =>
              (audioContext # 0 /\ liveReverb = reverbNode)
      ]_vars

\* C31 witness: a recording was decoded and played on the context the first
\* record click created, after a second startRecording() call and the
\* document's click listener both found that context in place.
C31_Witness ==
    /\ recordedBuffer # 0
    /\ playCount > 0
    /\ calls >= 2
    /\ ~clickListener
    /\ audioContext = initAudioContext(0)
    /\ liveReverb = reverbNode

\* C32: while no recorded buffer exists, nothing schedules a spawn, builds a
\* graph or starts a render, and a play() or download call changes nothing:
\* not the active voices, not the controls, not the status text.
C32_NoBufferNoOp ==
    [][ /\ recordedBuffer = 0 =>
              UNCHANGED <<timers, sessions, connections, offline, renderCount,
                          playCount, sources, currentPlayingSources,
                          playVisible, stopVisible, downloadDisabled,
                          downloads>>
        /\ (ignored' # ignored /\ ignored' # "none") =>
              /\ recordedBuffer = 0
              /\ UNCHANGED <<engineVars, captureVars, encoderVars,
                             audioContext, liveReverb, clickListener>>
      ]_vars

\* C32 witness: after a decode failed, play was clicked with no recorded
\* buffer: the status still reports the failure and nothing was scheduled.
C32_Witness ==
    /\ recordedBuffer = 0
    /\ ignored = "play"
    /\ status = "Error processing recording"
    /\ playCount = 0
    /\ timers = EmptyBag
    /\ sessions = <<>>

====
